---- MODULE Spec2Model ----
(***************************************************************************)
(* A model of the podman driver (src/src/lib.rs): the invocation compiler  *)
(* (mod commands), the argument encoder (cli_flag, cli_opt, cli_kv, ...),  *)
(* the execution facade and the inspect- and pidfile-based PID resolvers.  *)
(*                                                                         *)
(* A state is one call of the driver: the inputs it was given (call), the  *)
(* std::process::Command it has built so far (cmd), how far the call has   *)
(* got (pc), how many external processes it has spawned (spawned) and how  *)
(* many of them are still alive (running), the files it has opened         *)
(* (opened), what the last external process answered (output) and what the *)
(* call returned (result).  argv tokens are strings, joined with \o as the code joins    *)
(* OsStrings; process output is a sequence of one-character strings, so    *)
(* trimming and integer parsing are computed, not assumed.                 *)
(***************************************************************************)
EXTENDS Integers, Sequences, FiniteSets, TLC

VARIABLES call, pc, cmd, spawned, running, opened, output, result

vars == <<call, pc, cmd, spawned, running, opened, output, result>>

(***************************************************************************)
(* Bounds of the model.                                                    *)
(***************************************************************************)
MaxMounts == 2
MaxDevices == 2
MaxEnv == 2
MaxAnnotations == 2
MaxCmdLen == 2

(***************************************************************************)
(* Option<T>                                                               *)
(***************************************************************************)
None == [some |-> FALSE]
Some(v) == [some |-> TRUE, val |-> v]
Opt(v) == {None, Some(v)}

(***************************************************************************)
(* std::process::Command, as far as the driver uses it: the program, the   *)
(* argument list and the environment overrides of the child.               *)
(***************************************************************************)
Command_new(program) == [program |-> program, args |-> <<>>, envs |-> <<>>]
arg(c, a) == [c EXCEPT !.args = Append(@, a)]
args(c, as) == [c EXCEPT !.args = @ \o as]
env(c, k, v) == [c EXCEPT !.envs = Append(@, <<k, v>>)]

RECURSIVE envs(_, _)
envs(c, kvs) ==
    IF kvs = <<>> THEN c
    ELSE envs(env(c, Head(kvs)[1], Head(kvs)[2]), Tail(kvs))

(***************************************************************************)
(* The argument encoder.                                                   *)
(***************************************************************************)
os_string_key_val(key, val) == (key \o "=") \o val

\* mutants of cli_flag: the condition inverted, the condition ignored
cli_flag_inverted(c, on, name) == IF on THEN c ELSE arg(c, name)
cli_flag_always(c, on, name) == arg(c, name)

cli_flag(c, on, name) == IF on THEN arg(c, name) ELSE c

cli_opt(c, name, val) == IF val.some THEN arg(arg(c, name), val.val) ELSE c

cli_kv(c, name, key, val) == arg(arg(c, name), os_string_key_val(key, val))

cli_storage_opt(c, name, val) ==
    IF val.some THEN cli_kv(c, "--storage-opt", name, val.val) ELSE c

(***************************************************************************)
(* raster::Mount::to_volume_string of the descriptor crate:                *)
(* "source:destination[:options]".                                         *)
(***************************************************************************)
to_volume_string(mnt) ==
    (mnt.source \o ":") \o mnt.destination
        \o (IF mnt.options = "" THEN "" ELSE ":" \o mnt.options)

(***************************************************************************)
(* mod commands: the invocation compiler.                                  *)
(***************************************************************************)
\* mutant of base: an absent context read as a zero-value context
base_zero_value(podman_ctx) ==
    LET ctx == IF podman_ctx.some THEN podman_ctx.val
               ELSE [podman_path |-> "podman", podman_env |-> None,
                     graphroot |-> Some(""), runroot |-> Some("")]
        c0 == Command_new(ctx.podman_path)
        c1 == IF ctx.podman_env.some THEN envs(c0, ctx.podman_env.val) ELSE c0
        c2 == cli_opt(c1, "--root", ctx.graphroot)
    IN  cli_opt(c2, "--runroot", ctx.runroot)

base(podman_ctx) ==
    IF ~podman_ctx.some THEN Command_new("podman")
    ELSE LET ctx == podman_ctx.val
             c0 == Command_new(ctx.podman_path)
             c1 == IF ctx.podman_env.some THEN envs(c0, ctx.podman_env.val) ELSE c0
             c2 == cli_opt(c1, "--root", ctx.graphroot)
         IN  cli_opt(c2, "--runroot", ctx.runroot)

\* mutant of commands_run: the two storage options in the other order
commands_run_swapped(podman_ctx) ==
    LET c0 == base(podman_ctx)
        c1 == IF podman_ctx.some
              THEN LET ctx == podman_ctx.val
                   IN  cli_storage_opt(
                         cli_storage_opt(
                           cli_opt(c0, "--module", ctx.module),
                           "mount_program", ctx.parallax_mount_program),
                         "additionalimagestore", ctx.ro_store)
              ELSE c0
    IN  arg(c1, "run")

commands_run(podman_ctx) ==
    LET c0 == base(podman_ctx)
        c1 == IF podman_ctx.some
              THEN LET ctx == podman_ctx.val
                   IN  cli_storage_opt(
                         cli_storage_opt(
                           cli_opt(c0, "--module", ctx.module),
                           "additionalimagestore", ctx.ro_store),
                         "mount_program", ctx.parallax_mount_program)
              ELSE c0
    IN  arg(c1, "run")

\* mutant of for_mounts: the mounts visited last to first
RECURSIVE for_mounts_reversed(_, _)
for_mounts_reversed(c, mounts) ==
    IF mounts = <<>> THEN c
    ELSE cli_opt(for_mounts_reversed(c, Tail(mounts)), "--volume",
                 Some(to_volume_string(Head(mounts))))

\* for mnt in &edf.mounts { cli_opt(cmd, "--volume", Some(mnt.to_volume_string())) }
RECURSIVE for_mounts(_, _)
for_mounts(c, mounts) ==
    IF mounts = <<>> THEN c
    ELSE for_mounts(cli_opt(c, "--volume", Some(to_volume_string(Head(mounts)))),
                    Tail(mounts))

\* for dev in &edf.devices { cli_opt(cmd, "--device", Some(dev)) }
RECURSIVE for_devices(_, _)
for_devices(c, devices) ==
    IF devices = <<>> THEN c
    ELSE for_devices(cli_opt(c, "--device", Some(Head(devices))), Tail(devices))

\* for (key, val) in &map { cli_kv(cmd, name, key, val) }: the map is a hash
\* map, keys is the order in which this iteration happens to visit its keys.
RECURSIVE for_map(_, _, _, _)
for_map(c, name, map, keys) ==
    IF keys = <<>> THEN c
    ELSE for_map(cli_kv(c, name, Head(keys), map[Head(keys)]), name, map, Tail(keys))

\* mutant of commands_run_from_edf: the env map emitted only when set_env
commands_run_from_edf_set_env(edf, p_ctx, c_ctx, container_cmd, env_order, ann_order) ==
    LET c0  == commands_run(p_ctx)
        c1  == arg(c0, "--rm")
        c2  == cli_flag(c1, c_ctx.detach, "--detach")
        c3  == cli_flag(c2, c_ctx.interactive, "-it")
        c4  == cli_flag(c3, ~edf.writable, "--read-only")
        c5  == cli_opt(c4, "--name", Some(c_ctx.name))
        c6  == cli_opt(c5, "--pidfile", c_ctx.pidfile)
        c7  == cli_flag(c6, ~edf.entrypoint, "--entrypoint=")
        c8  == IF edf.workdir # "" THEN cli_opt(c7, "--workdir", Some(edf.workdir))
               ELSE c7
        c9  == for_mounts(c8, edf.mounts)
        c10 == for_devices(c9, edf.devices)
        c11 == IF c_ctx.set_env THEN for_map(c10, "--env", edf.env, env_order) ELSE c10
        c12 == for_map(c11, "--annotation", edf.annotations, ann_order)
        c13 == arg(c12, edf.image)
    IN  args(c13, container_cmd)

\* mutant of commands_run_from_edf: --workdir emitted without the is_empty test
commands_run_from_edf_workdir(edf, p_ctx, c_ctx, container_cmd, env_order, ann_order) ==
    LET c0  == commands_run(p_ctx)
        c1  == arg(c0, "--rm")
        c2  == cli_flag(c1, c_ctx.detach, "--detach")
        c3  == cli_flag(c2, c_ctx.interactive, "-it")
        c4  == cli_flag(c3, ~edf.writable, "--read-only")
        c5  == cli_opt(c4, "--name", Some(c_ctx.name))
        c6  == cli_opt(c5, "--pidfile", c_ctx.pidfile)
        c7  == cli_flag(c6, ~edf.entrypoint, "--entrypoint=")
        c8  == cli_opt(c7, "--workdir", Some(edf.workdir))
        c9  == for_mounts(c8, edf.mounts)
        c10 == for_devices(c9, edf.devices)
        c11 == for_map(c10, "--env", edf.env, env_order)
        c12 == for_map(c11, "--annotation", edf.annotations, ann_order)
        c13 == arg(c12, edf.image)
    IN  args(c13, container_cmd)

commands_run_from_edf(edf, p_ctx, c_ctx, container_cmd, env_order, ann_order) ==
    LET c0  == commands_run(p_ctx)
        c1  == arg(c0, "--rm")
        c2  == cli_flag(c1, c_ctx.detach, "--detach")
        c3  == cli_flag(c2, c_ctx.interactive, "-it")
        c4  == cli_flag(c3, ~edf.writable, "--read-only")
        c5  == cli_opt(c4, "--name", Some(c_ctx.name))
        c6  == cli_opt(c5, "--pidfile", c_ctx.pidfile)
        c7  == cli_flag(c6, ~edf.entrypoint, "--entrypoint=")
        c8  == IF edf.workdir # "" THEN cli_opt(c7, "--workdir", Some(edf.workdir))
               ELSE c7
        c9  == for_mounts(c8, edf.mounts)
        c10 == for_devices(c9, edf.devices)
        c11 == for_map(c10, "--env", edf.env, env_order)
        c12 == for_map(c11, "--annotation", edf.annotations, ann_order)
        c13 == arg(c12, edf.image)
    IN  args(c13, container_cmd)

\* if let Some(ctx) = podman_ctx { cli_storage_opt(cmd, "additionalimagestore", ..) }
with_ro_store(c, podman_ctx) ==
    IF podman_ctx.some
    THEN cli_storage_opt(c, "additionalimagestore", podman_ctx.val.ro_store)
    ELSE c

\* mutant of commands_pull: the store injected as the other operations do
commands_pull_with_store(image, podman_ctx) ==
    args(with_ro_store(base(podman_ctx), podman_ctx), <<"pull", image>>)

commands_pull(image, podman_ctx) == args(base(podman_ctx), <<"pull", image>>)

commands_rmi(image, podman_ctx) ==
    args(with_ro_store(base(podman_ctx), podman_ctx), <<"rmi", image>>)

commands_rm(name, podman_ctx) ==
    args(with_ro_store(base(podman_ctx), podman_ctx), <<"rm", name>>)

commands_stop(name, podman_ctx) ==
    args(with_ro_store(base(podman_ctx), podman_ctx), <<"stop", name>>)

commands_image_exists(image, podman_ctx) ==
    args(with_ro_store(base(podman_ctx), podman_ctx), <<"image", "exists", image>>)

commands_images(podman_ctx) ==
    arg(with_ro_store(base(podman_ctx), podman_ctx), "images")

commands_inspect(target, format, podman_ctx) ==
    LET c0 == with_ro_store(base(podman_ctx), podman_ctx)
        c1 == args(c0, <<"--log-level=error", "inspect">>)
        c2 == IF format.some THEN args(c1, <<"-f", format.val>>) ELSE c1
    IN  arg(c2, target)

commands_info(format, podman_ctx) ==
    LET c0 == arg(base(podman_ctx), "info")
    IN  IF format.some THEN args(c0, <<"-f", format.val>>) ELSE c0

commands_version(module) == arg(cli_opt(base(None), "--module", module), "version")

\* Option::expect: a panic carries its message and builds no Command.
Panic(msg) == [panic |-> TRUE, msg |-> msg]
IsPanic(v) == "panic" \in DOMAIN v

\* mutants of commands_parallax: a missing path read as the empty path; the
\* action checked against the closed set
commands_parallax_or_default(parallax_path, podman_ctx, image, action) ==
    LET root == IF podman_ctx.graphroot.some THEN podman_ctx.graphroot.val ELSE ""
        store == IF podman_ctx.ro_store.some THEN podman_ctx.ro_store.val ELSE ""
        c0 == Command_new(parallax_path)
        c1 == arg(arg(c0, "--podmanRoot"), root)
        c2 == arg(arg(c1, "--roStoragePath"), store)
    IN  arg(arg(arg(c2, "--" \o action), "--image"), image)

commands_parallax_validated(parallax_path, podman_ctx, image, action) ==
    IF ~podman_ctx.graphroot.some
    THEN Panic("Missing graphroot in parallax_migrate()")
    ELSE IF ~podman_ctx.ro_store.some
    THEN Panic("Missing read-only store path in parallax_migrate()")
    ELSE IF action \notin {"migrate", "rmi"} THEN Panic("Unknown action")
    ELSE LET c0 == Command_new(parallax_path)
             c1 == arg(arg(c0, "--podmanRoot"), podman_ctx.graphroot.val)
             c2 == arg(arg(c1, "--roStoragePath"), podman_ctx.ro_store.val)
         IN  arg(arg(arg(c2, "--" \o action), "--image"), image)

commands_parallax(parallax_path, podman_ctx, image, action) ==
    IF ~podman_ctx.graphroot.some
    THEN Panic("Missing graphroot in parallax_migrate()")
    ELSE IF ~podman_ctx.ro_store.some
    THEN Panic("Missing read-only store path in parallax_migrate()")
    ELSE LET c0 == Command_new(parallax_path)
             c1 == arg(arg(c0, "--podmanRoot"), podman_ctx.graphroot.val)
             c2 == arg(arg(c1, "--roStoragePath"), podman_ctx.ro_store.val)
         IN  arg(arg(arg(c2, "--" \o action), "--image"), image)

(***************************************************************************)
(* Process output is a sequence of bytes, one string per byte.  InvalidByte *)
(* stands for a byte that is not valid UTF-8.                              *)
(***************************************************************************)
InvalidByte == "<ff>"
ReplacementChar == "<U+FFFD>"
Digits == <<"0", "1", "2", "3", "4", "5", "6", "7", "8", "9">>
IsDigit(ch) == \E d \in DOMAIN Digits : Digits[d] = ch
DigitValue(ch) == (CHOOSE d \in DOMAIN Digits : Digits[d] = ch) - 1
IsWhitespace(ch) == ch \in {" ", "\n", "\t", "\r"}

\* A u32 is two 16-bit limbs, value hi * 2^16 + lo, so that arithmetic at the
\* width of the type stays within the integers of the model checker.
Limb == 2 ^ 16
U32(hi, lo) == [hi |-> hi, lo |-> lo]

\* mutant of checked_mul10_add: the arithmetic wraps at 2^32
wrapping_mul10_add(acc, d) ==
    LET lo10 == acc.lo * 10 + d
        hi10 == acc.hi * 10 + (lo10 \div Limb)
    IN  Some(U32(hi10 % Limb, lo10 % Limb))

\* u32::checked_mul(10) then u32::checked_add(d): None on overflow.
checked_mul10_add(acc, d) ==
    LET lo10 == acc.lo * 10 + d
        hi10 == acc.hi * 10 + (lo10 \div Limb)
    IN  IF hi10 >= Limb THEN None ELSE Some(U32(hi10, lo10 % Limb))

Ok(v) == [ok |-> TRUE, val |-> v]
Err(kind, msg) == [ok |-> FALSE, kind |-> kind, msg |-> msg]

\* str::from_utf8
from_utf8(bytes) ==
    IF \E i \in DOMAIN bytes : bytes[i] = InvalidByte
    THEN Err("Utf8Error", <<>>)
    ELSE Ok(bytes)

\* String::from_utf8_lossy
from_utf8_lossy(bytes) ==
    [i \in DOMAIN bytes |-> IF bytes[i] = InvalidByte THEN ReplacementChar ELSE bytes[i]]

\* str::trim
RECURSIVE trim_start(_)
trim_start(s) ==
    IF s # <<>> /\ IsWhitespace(Head(s)) THEN trim_start(Tail(s)) ELSE s

RECURSIVE trim_end(_)
trim_end(s) ==
    IF s # <<>> /\ IsWhitespace(s[Len(s)]) THEN trim_end(SubSeq(s, 1, Len(s) - 1)) ELSE s

trim(s) == trim_end(trim_start(s))

\* <u32 as FromStr>::from_str: an optional '+', then decimal digits folded
\* with checked_mul and checked_add.
RECURSIVE parse_digits(_, _)
parse_digits(digits, acc) ==
    IF digits = <<>> THEN Ok(acc)
    ELSE IF ~IsDigit(Head(digits)) THEN Err("ParseIntError", "InvalidDigit")
    ELSE LET next == checked_mul10_add(acc, DigitValue(Head(digits)))
         IN  IF ~next.some THEN Err("ParseIntError", "PosOverflow")
             ELSE parse_digits(Tail(digits), next.val)

parse_u32(s) ==
    IF s = <<>> THEN Err("ParseIntError", "Empty")
    ELSE IF s = <<"+">> \/ s = <<"-">> THEN Err("ParseIntError", "InvalidDigit")
    ELSE IF Head(s) = "+" THEN parse_digits(Tail(s), U32(0, 0))
    ELSE parse_digits(s, U32(0, 0))

\* get_container_pid, from the Output of its inspect process on
get_container_pid_result(out) ==
    IF out.status # 0
    THEN Err("inspect", <<"podman inspect failed: ">> \o trim(from_utf8_lossy(out.stderr)))
    ELSE LET s == from_utf8(out.stdout)
         IN  IF ~s.ok THEN s ELSE parse_u32(trim(s.val))

\* PathBuf::push: an absolute component replaces the path, any other one is
\* appended, after a separator unless the path is empty.
AbsolutePaths == {"/run/user/1000/containers", "/dev/shm/sarus-test/runroot"}
path_push(path, component) ==
    IF component \in AbsolutePaths THEN component
    ELSE IF path = "" THEN component
    ELSE (path \o "/") \o component

\* the &str of a text whose elements are characters or runs of characters
RECURSIVE to_str(_)
to_str(s) == IF s = <<>> THEN "" ELSE Head(s) \o to_str(Tail(s))

\* the path get_container_pid_from_default_file builds from a run-root
default_pidfile(runroot, container_id) ==
    path_push(path_push(path_push(path_push("", runroot), "overlay-containers"),
                        container_id),
              "userdata/pidfile")

\* File::open, read_to_string and str::parse::<u32> on the file at path, in a
\* file system fs that maps a path to the bytes of the file, if there is one
read_pidfile(fs, path) ==
    IF path \notin DOMAIN fs \/ ~fs[path].some THEN Err("io", "NotFound")
    ELSE IF ~from_utf8(fs[path].val).ok THEN Err("io", "InvalidData")
    ELSE parse_u32(fs[path].val)

\* mutant of parallax_execute_command_result: the exit status is swallowed
parallax_execute_command_unchecked(action, out) == Ok(<<>>)

\* parallax_execute_command, from the Output of the parallax process on
parallax_execute_command_result(action, out) ==
    IF out.status # 0
    THEN Err("parallax",
             <<"parallax " \o action \o " failed: ">> \o trim(from_utf8_lossy(out.stderr)))
    ELSE Ok(<<>>)

\* loggable::cmd2string
RECURSIVE push_args(_, _)
push_args(outstr, as) ==
    IF as = <<>> THEN outstr
    ELSE push_args((outstr \o " ") \o Head(as), Tail(as))

cmd2string(c) == push_args(c.program \o " ", c.args)

(***************************************************************************)
(* The inputs the model draws.                                             *)
(***************************************************************************)
\* The lists drawn from a pool: none of it, its first element, its first n.
Lists(pool, n) == {<<>>, SubSeq(pool, 1, 1), SubSeq(pool, 1, n)}
\* The key sets drawn from a pool: none of it, its first n.
KeySets(pool, n) == {{}, {pool[i] : i \in 1..n}}

\* The iteration orders of a hash map: every arrangement of its keys.
Orders(S) ==
    {s \in [1..Cardinality(S) -> S] : \A i, j \in DOMAIN s : s[i] = s[j] => i = j}

MountPool ==
    << [source |-> "/home/user/test", destination |-> "/develop", options |-> ""],
       [source |-> "/src2", destination |-> "/dst2", options |-> "ro"],
       [source |-> "/a", destination |-> "/b", options |-> ""] >>
DevicePool == <<"/dev/fuse", "nvidia.com/gpu=all", "/dev/kfd">>
EnvKeyPool == <<"TEST_2", "TEST_1", "TEST_3">>
EnvValue(k) ==
    CASE k = "TEST_1" -> "EDF!" [] k = "TEST_2" -> "foobar" [] OTHER -> "a=b"
AnnKeyPool ==
    <<"com.hooks.test2.enabled", "com.hooks.test1.enabled", "com.hooks.test3.enabled">>
AnnValue(k) == IF k = "com.hooks.test1.enabled" THEN "true" ELSE "false"
CmdPool == <<"bash", "--read-only", "--workdir">>

Range(s) == {s[i] : i \in DOMAIN s}
EnvMaps == {[k \in ks |-> EnvValue(k)] : ks \in KeySets(EnvKeyPool, MaxEnv)}
AnnMaps == {[k \in ks |-> AnnValue(k)] : ks \in KeySets(AnnKeyPool, MaxAnnotations)}

\* struct PodmanCtx
PodmanCtxs(envOpts) ==
    [podman_path : {"/usr/bin/podman"},
     module : Opt("hpc"),
     graphroot : Opt("/dev/shm/sarus-test/graphroot"),
     runroot : Opt("/dev/shm/sarus-test/runroot"),
     parallax_mount_program : Opt("/usr/local/sarus-test/parallax_mount_program"),
     ro_store : Opt("/scratch/user/parallax/store"),
     podman_env : envOpts]

\* struct ContainerCtx
ContainerCtxs ==
    [name : {"edf_test"},
     interactive : BOOLEAN,
     detach : BOOLEAN,
     set_env : {TRUE},
     pidfile : Opt("/tmp/test/pidfile")]

\* raster::EDF, the fields the compiler reads
EDFs ==
    [image : {"ubuntu:24.04"},
     writable : BOOLEAN,
     entrypoint : BOOLEAN,
     workdir : {"", "/develop"},
     mounts : Lists(MountPool, MaxMounts),
     devices : Lists(DevicePool, MaxDevices),
     env : EnvMaps,
     annotations : AnnMaps]

NoOutput == [status |-> 0, stdout |-> <<>>, stderr |-> <<>>]
NoResult == [kind |-> "none"]

EdfCalls ==
    [op : {"run_from_edf"},
     edf : EDFs,
     p_ctx : {None} \cup {Some(c) : c \in PodmanCtxs({None})},
     c_ctx : ContainerCtxs,
     container_cmd : Lists(CmdPool, MaxCmdLen)]

(***************************************************************************)
(* The compiler applied to a run_from_edf call.                            *)
(***************************************************************************)
InitEdf ==
    /\ call \in EdfCalls
    /\ pc = "start"
    /\ cmd = Command_new("")
    /\ spawned = 0
    /\ running = 0
    /\ opened = <<>>
    /\ output = NoOutput
    /\ result = NoResult

CompileRunFromEdf ==
    /\ pc = "start"
    /\ call.op = "run_from_edf"
    /\ \E env_order \in Orders(DOMAIN call.edf.env),
          ann_order \in Orders(DOMAIN call.edf.annotations) :
          cmd' = commands_run_from_edf(call.edf, call.p_ctx, call.c_ctx,
                                       call.container_cmd, env_order, ann_order)
    /\ pc' = "compiled"
    /\ UNCHANGED <<call, spawned, running, opened, output, result>>

NextEdf == CompileRunFromEdf

SpecEdf == InitEdf /\ [][NextEdf]_vars

(***************************************************************************)
(* The calls of the driver at large.                                       *)
(***************************************************************************)
EnvOverrides == <<<<"PARALLAX_MP_SQUASHFUSE_CMD", "/usr/bin/squashfuse_ll">>>>

CtxOpts == {None} \cup {Some(c) : c \in PodmanCtxs(Opt(EnvOverrides))}

FullCtx ==
    [podman_path |-> "/usr/bin/podman",
     module |-> Some("hpc"),
     graphroot |-> Some("/dev/shm/sarus-test/graphroot"),
     runroot |-> Some("/dev/shm/sarus-test/runroot"),
     parallax_mount_program |-> Some("/usr/local/sarus-test/parallax_mount_program"),
     ro_store |-> Some("/scratch/user/parallax/store"),
     podman_env |-> None]

RunOps == {"run", "run_output"}
ImageOps == {"pull", "rmi", "image_exists"}
NameOps == {"rm", "stop"}
ParallaxOps == {"parallax_migrate", "parallax_rmi", "loggable_parallax_migrate"}
PidOps == {"get_container_pid"}
PidfileOps == {"get_container_pid_from_default_file"}

\* The pidfile of a container and the file systems it may be looked up in:
\* under the run-root, or under the working directory when the run-root is
\* the empty path.
RunRoot == "/run/user/1000/containers"
PidfileTexts ==
    {<<"1", "2", "3", "4", "5">>, <<"1", "2", "3", "4", "5", "\n">>, <<"0">>, <<"4", "2">>,
     <<>>, <<"x">>, <<InvalidByte>>,
     <<"4", "2", "9", "4", "9", "6", "7", "2", "9", "6">>}
Pidfiles == {default_pidfile(rr, "edf_test") : rr \in {RunRoot, ""}}
FileSystems == [Pidfiles -> {None} \cup {Some(t) : t \in PidfileTexts}]

ActionOf(op) == IF op = "parallax_rmi" THEN "rmi" ELSE "migrate"
ActionPool == {"migrate", "rmi", "frobnicate", ""}

Calls ==
    [op : RunOps, p_ctx : CtxOpts, args : {<<>>, <<"--rm", "alpine:3.22", "true">>}]
    \cup [op : ImageOps, p_ctx : CtxOpts, image : {"alpine:3.22"}]
    \cup [op : NameOps, p_ctx : CtxOpts, name : {"edf_test"}]
    \cup [op : {"images"}, p_ctx : CtxOpts]
    \cup [op : {"inspect"}, p_ctx : CtxOpts, target : {"edf_test"},
          format : Opt("{{.State.Pid}}")]
    \cup [op : {"info"}, p_ctx : CtxOpts, format : Opt("{{.Store.RunRoot}}")]
    \cup [op : {"version"}, module : Opt("hpc")]
    \cup [op : PidOps, p_ctx : {None, Some(FullCtx)}, name : {"edf_test"}]
    \cup [op : PidfileOps, container_id : {"edf_test"}, runroot : Opt(RunRoot),
          fs : FileSystems]
    \cup {[op |-> o, p_ctx |-> Some(c), parallax_path |-> "/usr/local/sarus-test/parallax",
           image |-> "ubuntu:24.04", action |-> ActionOf(o)] :
             o \in ParallaxOps, c \in PodmanCtxs(Opt(EnvOverrides))}
    \cup {[op |-> "commands_parallax", p_ctx |-> Some(c),
           parallax_path |-> "/usr/local/sarus-test/parallax",
           image |-> "ubuntu:24.04", action |-> a] :
             a \in ActionPool, c \in PodmanCtxs({None})}
    \cup [op : {"run_from_edf"},
          edf : [image : {"ubuntu:24.04"}, writable : BOOLEAN, entrypoint : BOOLEAN,
                 workdir : {"/develop"},
                 mounts : {SubSeq(MountPool, 1, MaxMounts)},
                 devices : {SubSeq(DevicePool, 1, MaxDevices)},
                 env : {[k \in {} |-> ""]}, annotations : {[k \in {} |-> ""]}],
          p_ctx : {None, Some(FullCtx)},
          c_ctx : ContainerCtxs,
          container_cmd : {<<"bash">>}]

\* What an external process may answer.  Only the PID resolver reads stdout.
MaxPidLen == 2
PidAlphabet == {"0", "7", " ", "+", "x", InvalidByte}
BoundedSeqs(S, n) == UNION {[1..k -> S] : k \in 0..n}
Text(str_digits) == [i \in DOMAIN str_digits |-> Digits[str_digits[i] + 1]]
PidTexts ==
    BoundedSeqs(PidAlphabet, MaxPidLen)
    \cup {Text(<<4, 2, 9, 4, 9, 6, 7, 2, 9, 5>>), Text(<<4, 2, 9, 4, 9, 6, 7, 2, 9, 6>>),
          Text(<<0, 4, 2, 9, 4, 9, 6, 7, 2, 9, 5>>), Text(<<4, 2, 9, 4, 9, 6, 7, 3, 0, 0>>),
          Text(<<1, 2, 3, 4, 5>>), Text(<<9, 9, 9, 9, 9, 9, 9, 9, 9, 9, 9>>)}
Stdouts(op) ==
    IF op \in PidOps THEN {t \o nl : t \in PidTexts, nl \in {<<>>, <<"\n">>}}
    ELSE IF op \in PidfileOps
         THEN {<<RunRoot, "\n">>, <<RunRoot>>, <<"\n">>, <<>>, <<InvalidByte>>}
    ELSE {<<>>}
Stderrs == {<<>>, <<"E", "r", "r", "\n">>, <<" ", InvalidByte, " ", "e", " ">>}
ExitCodes == {0, 1, 125}
Outputs(op) == [status : ExitCodes, stdout : Stdouts(op), stderr : Stderrs]

Init ==
    /\ call \in Calls
    /\ pc = "start"
    /\ cmd = Command_new("")
    /\ spawned = 0
    /\ running = 0
    /\ opened = <<>>
    /\ output = NoOutput
    /\ result = NoResult

\* A compiler has built the Command of the call.
Built(op_set, c) ==
    /\ pc = "start"
    /\ call.op \in op_set
    /\ cmd' = c
    /\ pc' = "compiled"
    /\ UNCHANGED <<call, spawned, running, opened, output, result>>

CompileRun == Built(RunOps, args(commands_run(call.p_ctx), call.args))
CompilePull == Built({"pull"}, commands_pull(call.image, call.p_ctx))
CompileRmi == Built({"rmi"}, commands_rmi(call.image, call.p_ctx))
CompileRm == Built({"rm"}, commands_rm(call.name, call.p_ctx))
CompileStop == Built({"stop"}, commands_stop(call.name, call.p_ctx))
CompileImageExists ==
    Built({"image_exists"}, commands_image_exists(call.image, call.p_ctx))
CompileImages == Built({"images"}, commands_images(call.p_ctx))
CompileInspect ==
    \/ Built({"inspect"}, commands_inspect(call.target, call.format, call.p_ctx))
    \/ Built(PidOps, commands_inspect(call.name, Some("{{.State.Pid}}"), call.p_ctx))
CompileInfo ==
    \/ Built({"info"}, commands_info(call.format, call.p_ctx))
    \/ /\ call.op \in PidfileOps
       /\ ~call.runroot.some
       /\ Built(PidfileOps, commands_info(Some("{{.Store.RunRoot}}"), None))
CompileVersion == Built({"version"}, commands_version(call.module))

\* commands::parallax either builds the Command or panics in Option::expect,
\* before the caller reaches Command::output.
CompileParallax ==
    /\ pc = "start"
    /\ call.op \in ParallaxOps \cup {"commands_parallax"}
    /\ LET c == commands_parallax(call.parallax_path, call.p_ctx.val, call.image,
                                  call.action)
       IN  IF IsPanic(c)
           THEN /\ pc' = "panicked"
                /\ result' = c
                /\ UNCHANGED cmd
           ELSE /\ pc' = "compiled"
                /\ cmd' = c
                /\ UNCHANGED result
    /\ UNCHANGED <<call, spawned, running, opened, output>>

\* the message of the expect on Command::status / Command::output; the grave
\* accents of the parallax messages are written as apostrophes
spawn_failure(c) ==
    IF c.op \in {"parallax_migrate", "parallax_rmi"}
    THEN ("Failed to execute 'parallax " \o c.action) \o "'"
    ELSE IF c.op = "loggable_parallax_migrate"
    THEN ("Failed to 'parallax " \o c.action) \o "'"
    ELSE "Failed to execute command"

\* Command::status / Command::output: the process is spawned, or the spawn
\* fails and the expect panics.
Spawn ==
    /\ pc = "compiled"
    /\ call.op # "commands_parallax"
    /\ \/ /\ pc' = "running"
          /\ spawned' = spawned + 1
          /\ running' = running + 1
          /\ UNCHANGED result
       \/ /\ pc' = "panicked"
          /\ result' = Panic(spawn_failure(call))
          /\ UNCHANGED <<spawned, running>>
    /\ UNCHANGED <<call, cmd, opened, output>>

\* mutant of ProcessExit: the call has its Output while the child still runs
ProcessExit_detached ==
    /\ pc = "running"
    /\ output' \in Outputs(call.op)
    /\ pc' = "exited"
    /\ UNCHANGED <<call, cmd, spawned, running, opened, result>>

\* The external process ends; the blocked call has its Output.
ProcessExit ==
    /\ pc = "running"
    /\ output' \in Outputs(call.op)
    /\ running' = running - 1
    /\ pc' = "exited"
    /\ UNCHANGED <<call, cmd, spawned, opened, result>>

Returned(op_set, r) ==
    /\ pc = "exited"
    /\ call.op \in op_set
    /\ result' = r
    /\ pc' = "returned"
    /\ UNCHANGED <<call, cmd, spawned, running, opened, output>>

ReturnStatus ==
    Returned({"run", "run_from_edf"}, [kind |-> "ExitStatus", status |-> output.status])
ReturnOutput ==
    Returned({"run_output", "inspect", "info", "version"},
             [kind |-> "Output", output |-> output])
ReturnUnit == Returned({"pull", "rmi", "rm", "stop", "images"}, [kind |-> "unit"])
ReturnImageExists ==
    Returned({"image_exists"}, [kind |-> "bool", val |-> output.status = 0])
ReturnContainerPid == Returned(PidOps, get_container_pid_result(output))
ReturnParallax ==
    Returned({"parallax_migrate", "parallax_rmi"},
             parallax_execute_command_result(call.action, output))
ReturnLoggableParallax ==
    Returned({"loggable_parallax_migrate"},
             [kind |-> "ExecutedCommand", command |-> cmd2string(cmd), output |-> output])

\* get_container_pid_from_default_file from the run-root on: the pidfile is
\* opened, read and parsed.
ReadPidfile(runroot) ==
    /\ LET path == default_pidfile(runroot, call.container_id)
       IN  /\ opened' = Append(opened, path)
           /\ result' = read_pidfile(call.fs, path)
    /\ pc' = "returned"
    /\ UNCHANGED <<call, cmd, spawned, running, output>>

\* the caller gave the run-root
ResolveGivenRunroot ==
    /\ pc = "start"
    /\ call.op \in PidfileOps
    /\ call.runroot.some
    /\ ReadPidfile(call.runroot.val)

\* the run-root is the trimmed stdout of the info process
ResolveQueriedRunroot ==
    /\ pc = "exited"
    /\ call.op \in PidfileOps
    /\ LET s == from_utf8(output.stdout)
       IN  IF ~s.ok
           THEN /\ result' = s
                /\ pc' = "returned"
                /\ UNCHANGED <<call, cmd, spawned, running, opened, output>>
           ELSE ReadPidfile(to_str(trim(s.val)))

Next ==
    \/ CompileRun \/ CompileRunFromEdf \/ CompilePull \/ CompileRmi \/ CompileRm
    \/ CompileStop \/ CompileImageExists \/ CompileImages \/ CompileInspect
    \/ CompileInfo \/ CompileVersion \/ CompileParallax
    \/ Spawn \/ ProcessExit
    \/ ReturnStatus \/ ReturnOutput \/ ReturnUnit \/ ReturnImageExists
    \/ ReturnContainerPid \/ ReturnParallax \/ ReturnLoggableParallax
    \/ ResolveGivenRunroot \/ ResolveQueriedRunroot

Spec == Init /\ [][Next]_vars

(***************************************************************************)
(* The compiler applied to run_from_edf calls of either set_env.           *)
(***************************************************************************)
SetEnvCalls ==
    [op : {"run_from_edf"},
     edf : EDFs,
     p_ctx : {None, Some(FullCtx)},
     c_ctx : [name : {"edf_test"}, interactive : BOOLEAN, detach : BOOLEAN,
              set_env : BOOLEAN, pidfile : Opt("/tmp/test/pidfile")],
     container_cmd : {<<"bash">>}]

InitSetEnv ==
    /\ call \in SetEnvCalls
    /\ pc = "start"
    /\ cmd = Command_new("")
    /\ spawned = 0
    /\ running = 0
    /\ opened = <<>>
    /\ output = NoOutput
    /\ result = NoResult

SpecSetEnv == InitSetEnv /\ [][NextEdf]_vars

(***************************************************************************)
(* Vocabulary of the claims about run_from_edf.                            *)
(***************************************************************************)
Compiled(op) == pc = "compiled" /\ call.op = op

Count(s, x) == Cardinality({i \in DOMAIN s : s[i] = x})
IndexOf(s, x) == CHOOSE i \in DOMAIN s : s[i] = x /\ \A j \in 1..(i - 1) : s[j] # x
Has(s, x) == \E i \in DOMAIN s : s[i] = x

\* <<flag, v1, flag, v2, ...>>
Pairs(flag, vals) ==
    [i \in 1..(2 * Len(vals)) |-> IF i % 2 = 1 THEN flag ELSE vals[i \div 2]]
OptPair(flag, o) == IF o.some THEN <<flag, o.val>> ELSE <<>>
OptFlag(on, flag) == IF on THEN <<flag>> ELSE <<>>
Volumes(mounts) == [i \in DOMAIN mounts |-> to_volume_string(mounts[i])]

\* The tokens of a compiled run_from_edf command that precede the image.
ImageIndex == Len(cmd.args) - Len(call.container_cmd)
BeforeImage == SubSeq(cmd.args, 1, ImageIndex - 1)

\* The tokens the RuntimeContext contributes to a run, as the grammar writes them.
ContextTokens(p_ctx) ==
    IF ~p_ctx.some THEN <<>>
    ELSE LET ctx == p_ctx.val
         IN  OptPair("--root", ctx.graphroot) \o OptPair("--runroot", ctx.runroot)
             \o OptPair("--module", ctx.module)
             \o (IF ctx.ro_store.some
                 THEN <<"--storage-opt", "additionalimagestore=" \o ctx.ro_store.val>>
                 ELSE <<>>)
             \o (IF ctx.parallax_mount_program.some
                 THEN <<"--storage-opt",
                        "mount_program=" \o ctx.parallax_mount_program.val>>
                 ELSE <<>>)

\* The tokens of a run up to and including the --device pairs.
RunHead(c, entrypoint_tokens) ==
    ContextTokens(c.p_ctx)
    \o <<"run", "--rm">>
    \o OptFlag(c.c_ctx.detach, "--detach")
    \o OptFlag(c.c_ctx.interactive, "-it")
    \o OptFlag(~c.edf.writable, "--read-only")
    \o <<"--name", c.c_ctx.name>>
    \o OptPair("--pidfile", c.c_ctx.pidfile)
    \o entrypoint_tokens
    \o (IF c.edf.workdir # "" THEN <<"--workdir", c.edf.workdir>> ELSE <<>>)
    \o Pairs("--volume", Volumes(c.edf.mounts))
    \o Pairs("--device", c.edf.devices)

KeyValTokens(map) == {(k \o "=") \o map[k] : k \in DOMAIN map}

\* seg is one contiguous <<flag, k=v>> pair per entry of map, each key once.
IsPairGroup(seg, flag, map) ==
    LET n == Cardinality(DOMAIN map)
    IN  /\ Len(seg) = 2 * n
        /\ \A i \in 1..n : seg[2 * i - 1] = flag
        /\ {seg[2 * i] : i \in 1..n} = KeyValTokens(map)
        /\ Cardinality(KeyValTokens(map)) = n

\* C1: the argument list compiled by run_from_edf is exactly the concatenation,
\* in this order and with no other token, of the context tokens, run --rm, the
\* optional --detach, -it, --read-only, the --name pair (always), the optional
\* --pidfile pair, an optional --entrypoint=, the optional --workdir pair, a
\* --volume pair per mount and a --device pair per device in descriptor order,
\* a contiguous --env k=v pair per environment entry and a contiguous
\* --annotation k=v pair per annotation, each key once in some order, then the
\* image and the container command verbatim.
C1_RunLayout ==
    Compiled("run_from_edf") =>
        \E entrypoint_tokens \in {<<>>, <<"--entrypoint=">>} :
           LET head == RunHead(call, entrypoint_tokens)
               h == Len(head)
               e == h + 2 * Cardinality(DOMAIN call.edf.env)
               a == e + 2 * Cardinality(DOMAIN call.edf.annotations)
           IN  /\ Len(cmd.args) = a + 1 + Len(call.container_cmd)
               /\ SubSeq(cmd.args, 1, h) = head
               /\ IsPairGroup(SubSeq(cmd.args, h + 1, e), "--env", call.edf.env)
               /\ IsPairGroup(SubSeq(cmd.args, e + 1, a), "--annotation",
                              call.edf.annotations)
               /\ cmd.args[a + 1] = call.edf.image
               /\ SubSeq(cmd.args, a + 2, Len(cmd.args)) = call.container_cmd

\* C1 witness: a compiled run with every optional part present, two mounts,
\* two devices, two environment entries, two annotations and a command.
C1_Witness ==
    /\ Compiled("run_from_edf")
    /\ call.p_ctx.some
    /\ \A f \in {"module", "graphroot", "runroot", "parallax_mount_program", "ro_store"} :
          call.p_ctx.val[f].some
    /\ call.c_ctx.detach /\ call.c_ctx.interactive /\ call.c_ctx.pidfile.some
    /\ call.edf.workdir # ""
    /\ Len(call.edf.mounts) = 2 /\ Len(call.edf.devices) = 2
    /\ Cardinality(DOMAIN call.edf.env) = 2
    /\ Cardinality(DOMAIN call.edf.annotations) = 2
    /\ Len(call.container_cmd) = 2
    /\ cmd.args[Len(cmd.args)] = "--read-only"

(***************************************************************************)
(* The round-trip scenario of the unit test test_run_from_edf_command.     *)
(***************************************************************************)
RoundTrip ==
    /\ Compiled("run_from_edf")
    /\ call.p_ctx.some
    /\ \A f \in {"module", "graphroot", "runroot", "parallax_mount_program", "ro_store"} :
          call.p_ctx.val[f].some
    /\ call.c_ctx.detach /\ call.c_ctx.interactive /\ call.c_ctx.pidfile.some
    /\ ~call.edf.writable
    /\ ~call.edf.entrypoint
    /\ call.edf.workdir = "/develop"
    /\ Len(call.edf.mounts) = 2 /\ Len(call.edf.devices) = 2
    /\ Cardinality(DOMAIN call.edf.env) = 2
    /\ Cardinality(DOMAIN call.edf.annotations) = 2

RoundTripHead ==
    << "--root", "/dev/shm/sarus-test/graphroot",
       "--runroot", "/dev/shm/sarus-test/runroot",
       "--module", "hpc",
       "--storage-opt", "additionalimagestore=/scratch/user/parallax/store",
       "--storage-opt", "mount_program=/usr/local/sarus-test/parallax_mount_program",
       "run", "--rm", "--detach", "-it", "--read-only",
       "--name", "edf_test", "--pidfile", "/tmp/test/pidfile", "--entrypoint=" >>

PairGroupFlags ==
    << "--volume", "--volume", "--device", "--device",
       "--env", "--env", "--annotation", "--annotation" >>

\* The 16 tokens starting at position from are the four pair groups, in order.
PairGroupsAt(from) ==
    /\ Len(cmd.args) >= from + 15
    /\ \A g \in 1..8 : cmd.args[from + 2 * (g - 1)] = PairGroupFlags[g]
    /\ {cmd.args[from + 2 * g - 1] : g \in 1..8} =
          Range(Volumes(call.edf.mounts)) \cup Range(call.edf.devices)
          \cup KeyValTokens(call.edf.env) \cup KeyValTokens(call.edf.annotations)

\* C2, as the specification states it: in the round-trip scenario the 20
\* leading tokens are followed at once by the 16 pair-group tokens, the image
\* and the command, 20 + 16 + 1 + (command length) tokens in all.
C2_Original ==
    RoundTrip =>
        /\ SubSeq(cmd.args, 1, 20) = RoundTripHead
        /\ PairGroupsAt(21)
        /\ Len(cmd.args) = 20 + 16 + 1 + Len(call.container_cmd)

\* C2, amended: in the round-trip scenario the 20 leading tokens are followed
\* by the pair --workdir /develop, then the 16 pair-group tokens, the image and
\* the command: 20 + 2 + 16 + 1 + (command length) tokens in all.
C2_RoundTrip ==
    RoundTrip =>
        /\ SubSeq(cmd.args, 1, 20) = RoundTripHead
        /\ SubSeq(cmd.args, 21, 22) = <<"--workdir", "/develop">>
        /\ PairGroupsAt(23)
        /\ cmd.args[39] = call.edf.image
        /\ SubSeq(cmd.args, 40, Len(cmd.args)) = call.container_cmd
        /\ Len(cmd.args) = 20 + 2 + 16 + 1 + Len(call.container_cmd)

\* C2 witness: the unit test's call, whose command is ["bash"], 40 tokens.
C2_Witness == RoundTrip /\ call.container_cmd = <<"bash">> /\ Len(cmd.args) = 40

\* The position right after the --name pair and the optional --pidfile pair.
AfterNameAndPidfile ==
    IndexOf(BeforeImage, "--name") + 2 + (IF call.c_ctx.pidfile.some THEN 2 ELSE 0)

\* C3, as the specification states it: --entrypoint= is emitted, once, iff the
\* descriptor's entrypoint flag is true.
C3_Original ==
    Compiled("run_from_edf") =>
        Count(BeforeImage, "--entrypoint=") = (IF call.edf.entrypoint THEN 1 ELSE 0)

\* C3, amended: --entrypoint= is emitted exactly once, right after the --name
\* pair and the optional --pidfile pair and right before --workdir when that is
\* emitted, iff the descriptor's entrypoint flag is false; when the flag is
\* true the token is absent.
C3_Entrypoint ==
    Compiled("run_from_edf") =>
        /\ Count(BeforeImage, "--entrypoint=") = (IF call.edf.entrypoint THEN 0 ELSE 1)
        /\ ~call.edf.entrypoint =>
             /\ BeforeImage[AfterNameAndPidfile] = "--entrypoint="
             /\ call.edf.workdir # "" =>
                  BeforeImage[AfterNameAndPidfile + 1] = "--workdir"
             /\ BeforeImage[AfterNameAndPidfile - 2] \in {"--name", "--pidfile"}

\* C3 witness: a compiled run whose descriptor has the flag false, with a
\* pidfile and a workdir around the token.
C3_Witness ==
    /\ Compiled("run_from_edf")
    /\ ~call.edf.entrypoint /\ call.c_ctx.pidfile.some /\ call.edf.workdir # ""
    /\ Has(cmd.args, "--entrypoint=")

\* C4: among the tokens that precede the image, --read-only occurs exactly once
\* when the descriptor is not writable and not at all when it is writable,
\* whatever the other inputs are.
C4_ReadOnly ==
    Compiled("run_from_edf") =>
        Count(BeforeImage, "--read-only") = (IF call.edf.writable THEN 0 ELSE 1)

\* C4 witness: a writable descriptor whose container command itself holds the
\* token --read-only: the token is in the argument list, but not before the image.
C4_Witness ==
    /\ Compiled("run_from_edf")
    /\ call.edf.writable
    /\ Has(call.container_cmd, "--read-only")
    /\ Has(cmd.args, "--read-only")

\* C5: among the tokens that precede the image, --workdir occurs exactly once,
\* followed by the value, when the descriptor's workdir is non-empty, and not
\* at all when it is empty; the pair comes after --entrypoint= and before the
\* first --volume.
C5_Workdir ==
    Compiled("run_from_edf") =>
        /\ Count(BeforeImage, "--workdir") = (IF call.edf.workdir = "" THEN 0 ELSE 1)
        /\ call.edf.workdir # "" =>
             LET w == IndexOf(BeforeImage, "--workdir")
             IN  /\ BeforeImage[w + 1] = call.edf.workdir
                 /\ Has(BeforeImage, "--entrypoint=") =>
                      IndexOf(BeforeImage, "--entrypoint=") < w
                 /\ Has(BeforeImage, "--volume") =>
                      w + 1 < IndexOf(BeforeImage, "--volume")

\* C5 witness: a non-empty workdir between --entrypoint= and a --volume.
C5_Witness ==
    /\ Compiled("run_from_edf")
    /\ call.edf.workdir # "" /\ ~call.edf.entrypoint /\ Len(call.edf.mounts) > 0
    /\ Has(BeforeImage, "--workdir")

(***************************************************************************)
(* Vocabulary of the claims about the other compilers and the resolver.    *)
(***************************************************************************)
\* The call has built its Command (and may have gone on to run it).
HasCmd == pc \in {"compiled", "running", "exited", "returned"}

BaseLayout(ctx) == OptPair("--root", ctx.graphroot) \o OptPair("--runroot", ctx.runroot)
ContextFlags == {"--root", "--runroot", "--module", "--storage-opt"}
CtxOps ==
    RunOps \cup ImageOps \cup NameOps \cup {"images", "inspect", "info", "run_from_edf"}
    \cup PidOps
Bit(b) == IF b THEN 1 ELSE 0

\* C6: every operation that takes a RuntimeContext starts its arguments with
\* --root <graphroot> iff graphroot is set, then --runroot <runroot> iff
\* runroot is set; no token stands for an absent optional field; without a
\* RuntimeContext the program is podman and no --root, --runroot, --module or
\* --storage-opt is emitted; environment overrides go to the child's
\* environment and never into the arguments.
C6_BaseLayout ==
    (HasCmd /\ call.op \in CtxOps) =>
        IF ~call.p_ctx.some
        THEN /\ cmd.program = "podman"
             /\ cmd.envs = <<>>
             /\ \A f \in ContextFlags : ~Has(cmd.args, f)
        ELSE LET ctx == call.p_ctx.val
                 b == BaseLayout(ctx)
             IN  /\ cmd.program = ctx.podman_path
                 /\ SubSeq(cmd.args, 1, Len(b)) = b
                 /\ Count(cmd.args, "--root") = Bit(ctx.graphroot.some)
                 /\ Count(cmd.args, "--runroot") = Bit(ctx.runroot.some)
                 /\ Count(cmd.args, "--module") <= Bit(ctx.module.some)
                 /\ Count(cmd.args, "--storage-opt")
                      <= Bit(ctx.ro_store.some) + Bit(ctx.parallax_mount_program.some)
                 /\ ~Has(cmd.args, "")
                 /\ cmd.envs = (IF ctx.podman_env.some THEN ctx.podman_env.val ELSE <<>>)
                 /\ ctx.podman_env.some =>
                      \A i \in DOMAIN ctx.podman_env.val :
                         LET k == ctx.podman_env.val[i][1]
                             v == ctx.podman_env.val[i][2]
                         IN  \A t \in {k, v, (k \o "=") \o v} : ~Has(cmd.args, t)

\* C6 witness: info compiled for a context with a runroot, no graphroot and
\* environment overrides.
C6_Witness ==
    /\ HasCmd /\ call.op = "info"
    /\ call.p_ctx.some
    /\ ~call.p_ctx.val.graphroot.some /\ call.p_ctx.val.runroot.some
    /\ call.p_ctx.val.podman_env.some
    /\ cmd.args[1] = "--runroot"
    /\ cmd.envs # <<>>

RoStoreOps == {"rmi", "rm", "stop", "image_exists", "images", "inspect"}
Subcommand(op) ==
    CASE op = "image_exists" -> "image"
      [] op = "inspect" -> "--log-level=error"
      [] OTHER -> op

\* C7: with a secondary read-only image store configured, rmi, rm, stop,
\* image_exists, images and inspect emit exactly one pair
\* --storage-opt additionalimagestore=<path>, after the base layout and before
\* the subcommand tokens; pull never emits --storage-opt.
C7_RoStore ==
    /\ (HasCmd /\ call.op \in RoStoreOps /\ call.p_ctx.some
          /\ call.p_ctx.val.ro_store.some) =>
           LET b == Len(BaseLayout(call.p_ctx.val))
           IN  /\ Count(cmd.args, "--storage-opt") = 1
               /\ cmd.args[b + 1] = "--storage-opt"
               /\ cmd.args[b + 2] = "additionalimagestore=" \o call.p_ctx.val.ro_store.val
               /\ cmd.args[b + 3] = Subcommand(call.op)
    /\ (HasCmd /\ call.op = "pull") => ~Has(cmd.args, "--storage-opt")

\* C7 witness: stop compiled with a store, after a two-pair base layout.
C7_Witness ==
    /\ HasCmd /\ call.op = "stop"
    /\ call.p_ctx.some /\ call.p_ctx.val.ro_store.some
    /\ call.p_ctx.val.graphroot.some /\ call.p_ctx.val.runroot.some
    /\ cmd.args[5] = "--storage-opt"

MissingPaths ==
    /\ call.op \in ParallaxOps
    /\ ~call.p_ctx.val.ro_store.some \/ ~call.p_ctx.val.graphroot.some

\* C8: a migration-bridge call whose RuntimeContext lacks ro_store or
\* graphroot panics in the compiler: it never has a Command, never returns, and
\* has spawned no process when it fails.
C8_ParallaxPrecondition ==
    MissingPaths =>
        /\ pc \in {"start", "panicked"}
        /\ spawned = 0
        /\ pc = "panicked" =>
             /\ IsPanic(result)
             /\ result.msg \in {"Missing graphroot in parallax_migrate()",
                                "Missing read-only store path in parallax_migrate()"}

\* C8 witness: parallax_rmi has panicked on a context with a graphroot and no
\* ro_store.
C8_Witness ==
    /\ call.op = "parallax_rmi"
    /\ call.p_ctx.val.graphroot.some /\ ~call.p_ctx.val.ro_store.some
    /\ pc = "panicked" /\ spawned = 0

\* C9: with graphroot and ro_store set, the migration-bridge compiler yields
\* the tool path as program and exactly the seven arguments --podmanRoot
\* <graphroot> --roStoragePath <store> --<action> --image <image>, for any
\* action string, and nothing else of the RuntimeContext contributes.
C9_ParallaxLayout ==
    (/\ call.op \in ParallaxOps \cup {"commands_parallax"}
     /\ call.p_ctx.val.graphroot.some /\ call.p_ctx.val.ro_store.some
     /\ pc # "start") =>
        /\ cmd.program = call.parallax_path
        /\ Len(cmd.args) = 7
        /\ cmd.args = << "--podmanRoot", call.p_ctx.val.graphroot.val,
                         "--roStoragePath", call.p_ctx.val.ro_store.val,
                         "--" \o call.action, "--image", call.image >>
        /\ cmd.envs = <<>>

\* C9 witness: the compiler given an action outside {migrate, rmi} and a
\* context with module, runroot and mount program set.
C9_Witness ==
    /\ HasCmd /\ call.op = "commands_parallax"
    /\ call.action = "frobnicate"
    /\ call.p_ctx.val.module.some /\ call.p_ctx.val.runroot.some
    /\ call.p_ctx.val.parallax_mount_program.some
    /\ cmd.args[5] = "--frobnicate"

\* s without its leading and trailing whitespace
Stripped(s) ==
    LET keep == {i \in DOMAIN s : ~IsWhitespace(s[i])}
    IN  IF keep = {} THEN <<>>
        ELSE SubSeq(s, CHOOSE i \in keep : \A j \in keep : i <= j,
                       CHOOSE i \in keep : \A j \in keep : j <= i)

Unsigned(t) == IF t # <<>> /\ t[1] = "+" THEN Tail(t) ELSE t
AllDigits(d) == d # <<>> /\ \A i \in DOMAIN d : IsDigit(d[i])
\* d without its leading zeros
Significant(d) ==
    LET nz == {i \in DOMAIN d : d[i] # "0"}
    IN  IF nz = {} THEN <<"0">>
        ELSE SubSeq(d, CHOOSE i \in nz : \A j \in nz : i <= j, Len(d))
U32MaxText == <<"4", "2", "9", "4", "9", "6", "7", "2", "9", "5">>
DigitsLeq(a, b) ==
    \/ a = b
    \/ \E i \in DOMAIN a :
          /\ DigitValue(a[i]) < DigitValue(b[i])
          /\ \A j \in 1..(i - 1) : a[j] = b[j]
\* t is the decimal text of an integer in 0 .. 2^32 - 1
IsU32Text(t) ==
    /\ AllDigits(Unsigned(t))
    /\ LET g == Significant(Unsigned(t))
       IN  \/ Len(g) < Len(U32MaxText)
           \/ Len(g) = Len(U32MaxText) /\ DigitsLeq(g, U32MaxText)

\* the decimal text of a u32
RECURSIVE Decimal(_)
Decimal(v) ==
    IF v.hi = 0 /\ v.lo < 10 THEN <<Digits[v.lo + 1]>>
    ELSE LET x == (v.hi % 10) * Limb + v.lo
         IN  Decimal(U32(v.hi \div 10, x \div 10)) \o <<Digits[(x % 10) + 1]>>

PidReturned == pc = "returned" /\ call.op = "get_container_pid"

\* C10: get_container_pid returns an error whenever inspect exits non-zero,
\* the error text carrying the trimmed stderr, and whenever the trimmed stdout
\* is not an unsigned 32-bit integer; otherwise it returns exactly the integer
\* the text denotes, 0 for the text 0, and never a substituted value.
C10_ContainerPid ==
    PidReturned =>
        LET t == Stripped(output.stdout)
            good == /\ output.status = 0
                    /\ ~Has(output.stdout, InvalidByte)
                    /\ IsU32Text(t)
        IN  /\ result.ok <=> good
            /\ good =>
                 /\ result.val.hi \in 0..(Limb - 1) /\ result.val.lo \in 0..(Limb - 1)
                 /\ Decimal(result.val) = Significant(Unsigned(t))
            /\ output.status # 0 =>
                 result.msg = <<"podman inspect failed: ">>
                                \o Stripped(from_utf8_lossy(output.stderr))
            /\ (output.status = 0 /\ t = <<"0">>) => result = Ok(U32(0, 0))

\* C10 witness: inspect printed 0 and a newline for a stopped container and
\* the resolver returned the value 0.
C10_Witness ==
    /\ PidReturned
    /\ output.status = 0 /\ output.stdout = <<"0", "\n">>
    /\ result.ok /\ result.val = U32(0, 0)

(***************************************************************************)
(* Vocabulary of the claims about the pidfile resolver.                    *)
(***************************************************************************)
PidfileReturned == pc = "returned" /\ call.op = "get_container_pid_from_default_file"

\* <runroot>/overlay-containers/<container-id>/userdata/pidfile
PidfileUnder(runroot, container_id) ==
    ((runroot \o "/overlay-containers/") \o container_id) \o "/userdata/pidfile"

\* t without its trailing whitespace
RECURSIVE WithoutTrailingWhitespace(_)
WithoutTrailingWhitespace(t) ==
    IF t # <<>> /\ IsWhitespace(t[Len(t)])
    THEN WithoutTrailingWhitespace(SubSeq(t, 1, Len(t) - 1))
    ELSE t

\* C11: with a run-root, the pidfile resolver reads the file
\* <runroot>/overlay-containers/<container-id>/userdata/pidfile, and a file
\* that holds the decimal digits of an unsigned 32-bit integer N followed by
\* whitespace such as a newline resolves successfully to N.
C11_PidfileTrailingWhitespace ==
    (PidfileReturned /\ call.runroot.some) =>
        LET path == PidfileUnder(call.runroot.val, call.container_id)
            file == call.fs[path]
        IN  /\ opened = <<path>>
            /\ (/\ file.some
                /\ AllDigits(WithoutTrailingWhitespace(file.val))
                /\ IsU32Text(WithoutTrailingWhitespace(file.val)))
               => /\ result.ok
                  /\ Decimal(result.val) = Significant(WithoutTrailingWhitespace(file.val))

(***************************************************************************)
(* Vocabulary of the claims about the execution facade.                    *)
(***************************************************************************)
ExposedOps ==
    {"run", "run_output", "run_from_edf", "pull", "rmi", "rm", "stop", "images",
     "image_exists", "inspect", "info", "version", "get_container_pid",
     "get_container_pid_from_default_file", "parallax_migrate", "parallax_rmi"}

ReturnedFrom(op_set) == pc = "returned" /\ call.op \in op_set

\* C12 as stated: every exposed function that returns normally has spawned
\* exactly one process, and none is still running at return.
C12_Original == ReturnedFrom(ExposedOps) => (spawned = 1 /\ running = 0)

\* C12: every exposed function that returns normally has no process still
\* running at return and has spawned exactly one process, except
\* get_container_pid_from_default_file called with a run-root, which has
\* spawned none.
C12_ProcessCount ==
    ReturnedFrom(ExposedOps) =>
        /\ running = 0
        /\ spawned = (IF call.op \in PidfileOps /\ call.runroot.some THEN 0 ELSE 1)

C12_Witness ==
    /\ PidfileReturned
    /\ ~call.runroot.some
    /\ spawned = 1 /\ running = 0
    /\ opened # <<>> /\ result.ok

(***************************************************************************)
(* Vocabulary of the claims about the migration bridge.                    *)
(***************************************************************************)
Failure(r) == "ok" \in DOMAIN r /\ ~r.ok
Success(r) == ~Failure(r) /\ ~IsPanic(r) /\ r # NoResult

\* the text of the failure of a migration-bridge call
ParallaxFailureText(op, stderr) ==
    <<IF op = "parallax_rmi" THEN "parallax rmi failed: " ELSE "parallax migrate failed: ">>
    \o Stripped(from_utf8_lossy(stderr))

\* C13 as stated: for parallax_migrate, parallax_rmi and
\* loggable::parallax_migrate alike, a non-zero exit of the tool is returned as
\* a failure carrying the trimmed stderr, and a zero exit as success.
C13_Original ==
    ReturnedFrom(ParallaxOps) =>
        /\ output.status # 0 =>
             /\ Failure(result)
             /\ result.msg = ParallaxFailureText(call.op, output.stderr)
        /\ output.status = 0 => Success(result)

\* C13: parallax_migrate and parallax_rmi return a non-zero exit of the tool
\* as a failure carrying the trimmed stderr, never as success, and a zero exit
\* as success; loggable::parallax_migrate returns, for every exit status, an
\* ExecutedCommand that carries the Output of the tool unchanged and is never
\* a failure.
C13_ParallaxFailure ==
    ReturnedFrom(ParallaxOps) =>
        IF call.op = "loggable_parallax_migrate"
        THEN /\ ~Failure(result)
             /\ result.kind = "ExecutedCommand"
             /\ result.output = output
        ELSE /\ output.status # 0 =>
                  /\ Failure(result)
                  /\ result.msg = ParallaxFailureText(call.op, output.stderr)
             /\ output.status = 0 => Success(result)

C13_Witness ==
    /\ ReturnedFrom({"parallax_rmi"})
    /\ output.status = 125
    /\ output.stderr = <<" ", InvalidByte, " ", "e", " ">>
    /\ Failure(result)
    /\ result.msg = <<"parallax rmi failed: ", ReplacementChar, " ", "e">>

\* C14: get_container_pid_from_default_file without a run-root runs the
\* daemon-info query, with no RuntimeContext and program podman, strictly
\* before any file access, and surfaces a failure of that query as an error:
\* when info exits non-zero or prints an empty run-root, the resolver opens
\* no file and returns no PID.
C14_InfoFailureSurfaced ==
    (call.op \in PidfileOps /\ ~call.runroot.some) =>
        /\ opened # <<>> =>
             /\ spawned = 1 /\ running = 0
             /\ cmd.program = "podman"
             /\ cmd.args = <<"info", "-f", "{{.Store.RunRoot}}">>
        /\ (pc = "returned" /\ (output.status # 0 \/ Stripped(output.stdout) = <<>>)) =>
             /\ opened = <<>>
             /\ Failure(result)

(***************************************************************************)
(* Vocabulary of the claim about set_env.                                  *)
(***************************************************************************)
\* the call with set_env the other way round, everything else the same
OtherSetEnv(c) == [c EXCEPT !.c_ctx.set_env = ~c.c_ctx.set_env]

\* args holds the adjacent pair --env k=v
HasEnvPair(argv, k, v) ==
    \E i \in 1..(Len(argv) - 1) : argv[i] = "--env" /\ argv[i + 1] = (k \o "=") \o v

\* C15: set_env has no influence on compilation: the program and args that
\* run_from_edf compiles are also those it compiles for the input that differs
\* only in set_env, and every env entry is emitted as --env k=v whether
\* set_env is true or false.
C15_SetEnvIgnored ==
    Compiled("run_from_edf") =>
        /\ \E env_order \in Orders(DOMAIN call.edf.env),
              ann_order \in Orders(DOMAIN call.edf.annotations) :
              LET other == OtherSetEnv(call)
                  twin == commands_run_from_edf(other.edf, other.p_ctx, other.c_ctx,
                                                other.container_cmd, env_order, ann_order)
              IN  twin.program = cmd.program /\ twin.args = cmd.args
        /\ \A k \in DOMAIN call.edf.env : HasEnvPair(cmd.args, k, call.edf.env[k])
        /\ Count(cmd.args, "--env") = Cardinality(DOMAIN call.edf.env)

C15_Witness ==
    /\ Compiled("run_from_edf")
    /\ ~call.c_ctx.set_env
    /\ Cardinality(DOMAIN call.edf.env) = MaxEnv
    /\ Count(cmd.args, "--env") = MaxEnv
    /\ HasEnvPair(cmd.args, "TEST_1", "EDF!")

====
